---------------------------- MODULE Spec2Model ----------------------------
(***************************************************************************)
(* PositionPreviewWidget (src/lib/PositionPreviewWidget.py): the preview   *)
(* canvas on which the overlay is moved and resized with the mouse.        *)
(*                                                                         *)
(* Rectangles are Qt QRect values, kept as Qt keeps them: the inclusive    *)
(* corner coordinates x1, y1, x2, y2, so that width = x2 - x1 + 1 and      *)
(* right() = x2.  Python floats (the two aspect ratios and every           *)
(* intermediate quotient) are exact rationals here: a ratio is a pair      *)
(* <<numerator, denominator>> in lowest terms, and int(round(q)) is        *)
(* Python 3's round-half-to-even of the exact quotient.  A double differs  *)
(* from the exact quotient by less than any distance to a rounding         *)
(* boundary these small integers can produce, except when the exact        *)
(* quotient is itself a tie (k + 1/2).                                     *)
(***************************************************************************)
EXTENDS Integers, Sequences, FiniteSets, TLC

\* ------------------------------------------------------------------------
\* Program constants
\* ------------------------------------------------------------------------
HANDLE_NONE == 0
HANDLE_TOP_LEFT == 1
HANDLE_TOP_RIGHT == 2
HANDLE_BOTTOM_LEFT == 3
HANDLE_BOTTOM_RIGHT == 4
HANDLE_MOVE == 5
HANDLE_SIZE == 8

\* The widget border the drawable area is inset by: rect().adjusted(1, 1, -1, -1).
BORDER == 1

\* ------------------------------------------------------------------------
\* Bounds of the model
\* ------------------------------------------------------------------------
\* Drag sessions (pointer-downs that hit the overlay) explored in one run.
MaxDrags == 1

\* Pointer-moves explored in one drag session.
MaxMoves == 2

\* Host and toolkit calls (setMonitorGeometry, setOverlayInfo, resizeEvent)
\* explored in one run, before, during and after the drag.
MaxHostCalls == 2

\* Widget sizes the toolkit hands to resizeEvent; none is below the
\* minimum size set in __init__ (100 x 50).
WidgetSizes == {<<100, 50>>, <<100, 52>>}

\* Arguments of setMonitorGeometry: a landscape and a narrow portrait
\* display, and the invalid widths and heights the guard rejects.
MonitorWidths == {-1920, 0, 360, 1920}
MonitorHeights == {0, 1080}

\* Arguments of setOverlayInfo the host pushes (rel_x, rel_y, width, height).
OverlayArgs ==
    { <<5, 0, 800, 450>>,
      <<900, 50, 300, 900>>,
      <<0, 0, 2400, 450>>,
      <<-5, 0, 0, 0>> }

\* Pointer positions of mouse events, in widget coordinates: the corners
\* and the body of the overlay rectangles the arguments above produce on
\* these widget sizes, and a point beyond the display on either side.
Points ==
    { <<8, 2>>, <<41, 2>>, <<8, 20>>, <<41, 20>>, <<20, 12>>,
      <<48, 2>>, <<62, 2>>, <<48, 41>>, <<62, 41>>, <<48, 12>>,
      <<56, 41>>, <<-6, -6>>, <<104, 41>> }

\* Pointer positions of the events that can only set the cursor (a move
\* with no drag active, a release): over a handle, over the body, outside.
CursorPoints == {<<8, 2>>, <<48, 12>>, <<104, 41>>}

\* The position of the events whose effect does not depend on it: a press
\* or release of another button, a move with no button held.
ElsewherePoint == <<48, 12>>

\* ------------------------------------------------------------------------
\* Arithmetic
\* ------------------------------------------------------------------------
Max(a, b) == IF a >= b THEN a ELSE b
Min(a, b) == IF a <= b THEN a ELSE b
Abs(a) == IF a >= 0 THEN a ELSE -a

RECURSIVE Gcd(_, _)
Gcd(a, b) == IF b = 0 THEN a ELSE Gcd(b, a % b)

\* The float w / h of two positive integers, as a rational in lowest terms.
Ratio(n, d) == LET g == Gcd(n, d) IN <<n \div g, d \div g>>

\* int(round(n / d)) for d > 0: Python rounds halves to the even neighbour.
RoundDiv(n, d) ==
    LET q == n \div d
        r == n - q * d
    IN  IF 2 * r < d THEN q
        ELSE IF 2 * r > d THEN q + 1
        ELSE IF q % 2 = 0 THEN q ELSE q + 1

\* ------------------------------------------------------------------------
\* QRect
\* ------------------------------------------------------------------------
QRect(x, y, w, h) == [x1 |-> x, y1 |-> y, x2 |-> x + w - 1, y2 |-> y + h - 1]
NullRect == QRect(0, 0, 0, 0)
Width(r) == r.x2 - r.x1 + 1
Height(r) == r.y2 - r.y1 + 1
IsNull(r) == r.x2 = r.x1 - 1 /\ r.y2 = r.y1 - 1

\* QRect::contains(QPoint): a null rectangle contains nothing; a rectangle
\* of negative extent is normalised first.
Contains(r, p) ==
    LET l == IF r.x2 < r.x1 - 1 THEN r.x2 ELSE r.x1
        rr == IF r.x2 < r.x1 - 1 THEN r.x1 ELSE r.x2
        t == IF r.y2 < r.y1 - 1 THEN r.y2 ELSE r.y1
        b == IF r.y2 < r.y1 - 1 THEN r.y1 ELSE r.y2
    IN  /\ ~IsNull(r)
        /\ p[1] >= l /\ p[1] <= rr
        /\ p[2] >= t /\ p[2] <= b

SetSize(r, w, h) == [r EXCEPT !.x2 = r.x1 + w - 1, !.y2 = r.y1 + h - 1]
Translate(r, d) ==
    [x1 |-> r.x1 + d[1], y1 |-> r.y1 + d[2], x2 |-> r.x2 + d[1], y2 |-> r.y2 + d[2]]
MoveLeft(r, x) == [r EXCEPT !.x1 = x, !.x2 = r.x2 + (x - r.x1)]
MoveTop(r, y) == [r EXCEPT !.y1 = y, !.y2 = r.y2 + (y - r.y1)]
SetTopLeft(r, p) == [r EXCEPT !.x1 = p[1], !.y1 = p[2]]
SetBottomLeft(r, p) == [r EXCEPT !.x1 = p[1], !.y2 = p[2]]
SetTopRight(r, p) == [r EXCEPT !.x2 = p[1], !.y1 = p[2]]

\* ------------------------------------------------------------------------
\* State
\* ------------------------------------------------------------------------
VARIABLES
    monitor_width_px,       \* DisplaySpec
    monitor_height_px,
    monitor_aspect_ratio,
    overlay_relative_pos,   \* OverlaySpec (canonical state)
    overlay_actual_width,
    overlay_actual_height,
    overlay_aspect_ratio,
    monitor_rect,           \* CanvasFrame: display_rect
    overlay_rect,           \*              overlay_rect
    dragging_mode,          \* DragSession
    drag_start_pos,
    drag_start_rect,
    widget_size,            \* self.rect().size()
    cursor,                 \* the cursor shape last set
    emitted,                \* overlayGeometryChanged emissions of the last handler
    observed,               \* what a slot connected to the signal found in the widget during the last handler
    updated,                \* whether the last handler called self.update()
    pre_drag_aspect,        \* history: overlay_aspect_ratio at the last pointer-down that started a drag
    pre_drag_canon,         \* history: the canonical OverlaySpec at that pointer-down
    drags,                  \* history: drag sessions started so far
    moves,                  \* history: pointer-moves of the current drag session
    last_op,                \* history: the handler that ran last
    interfered,             \* history: a setter or resize ran since the drag started
    left_down,              \* environment: the left pointer button is held down
    drag_candidate,         \* history: new_rect of the last pointer-move of a drag, else <<>>
    slot,                   \* environment: where a slot that calls the setters back stands
    event_emitted,          \* history: emissions raised so far by the pointer event being handled
    host_calls              \* history: setter calls and resize events so far

canon == <<overlay_relative_pos, overlay_actual_width, overlay_actual_height>>
display == <<monitor_width_px, monitor_height_px, monitor_aspect_ratio>>
frame == <<monitor_rect, overlay_rect>>
session == <<dragging_mode, drag_start_pos, drag_start_rect>>
reentry == <<slot, event_emitted>>
vars == <<monitor_width_px, monitor_height_px, monitor_aspect_ratio,
          overlay_relative_pos, overlay_actual_width, overlay_actual_height,
          overlay_aspect_ratio, monitor_rect, overlay_rect, dragging_mode,
          drag_start_pos, drag_start_rect, widget_size, cursor, emitted, observed,
          updated, pre_drag_aspect, pre_drag_canon, drags, moves, last_op, interfered,
          left_down, slot, event_emitted, drag_candidate, host_calls>>


\* ------------------------------------------------------------------------
\* Frame recompute (_calculate_rects)
\* ------------------------------------------------------------------------
\* self.rect().adjusted(1, 1, -1, -1)
DrawableArea(size) ==
    [x1 |-> BORDER, y1 |-> BORDER, x2 |-> size[1] - 1 - BORDER, y2 |-> size[2] - 1 - BORDER]

\* Faulty variant of MonitorRectOf: always bound by the width of the
\* drawable area.
MonitorRectWidthBound(wr, mar) ==
    LET w == Width(wr)
        h == RoundDiv(w * mar[2], mar[1])
    IN  QRect(wr.x1, wr.y1 + (Height(wr) - h) \div 2, w, h)

\* The letterboxed display_rect: height-bound when the drawable area is
\* wider than the display, width-bound otherwise.
MonitorRectOf(wr, mar) ==
    IF Width(wr) * mar[2] > mar[1] * Height(wr)
    THEN LET h == Height(wr)
             w == RoundDiv(h * mar[1], mar[2])
         IN  QRect(wr.x1 + (Width(wr) - w) \div 2, wr.y1, w, h)
    ELSE LET w == Width(wr)
             h == RoundDiv(w * mar[2], mar[1])
         IN  QRect(wr.x1, wr.y1 + (Height(wr) - h) \div 2, w, h)

\* The minimum preview size that keeps the handles grabbable.
MinPreviewSize == HANDLE_SIZE * 2 + 2

\* Faulty variant of PreviewSize: both dimensions scaled from the width of
\* display_rect.
PreviewSizeFromWidth(m, mw, mh, ow, oh) ==
    << Max(MinPreviewSize, RoundDiv(Width(m) * ow, mw)),
       Max(MinPreviewSize, RoundDiv(Width(m) * oh, mh)) >>

\* The preview size of the overlay: display_rect scaled by the overlay's
\* share of the display, floored at the minimum.
PreviewSize(m, mw, mh, ow, oh) ==
    << Max(MinPreviewSize, RoundDiv(Width(m) * ow, mw)),
       Max(MinPreviewSize, RoundDiv(Height(m) * oh, mh)) >>

\* Faulty variant of PreviewOrigin: the scaled offset is truncated.
PreviewOriginTruncated(m, mw, mh, pos) ==
    << m.x1 + (Width(m) * pos[1]) \div mw,
       m.y1 + (Height(m) * pos[2]) \div mh >>

\* The preview origin of the overlay (real to canvas).
PreviewOrigin(m, mw, mh, pos) ==
    << m.x1 + RoundDiv(Width(m) * pos[1], mw),
       m.y1 + RoundDiv(Height(m) * pos[2], mh) >>

\* The position clamp: pull back from the right and bottom edge, then
\* push to the left and top edge.
ClampIntoMonitor(m, o, sz) ==
    LET px1 == IF o[1] + sz[1] > m.x2 + 1 THEN m.x2 + 1 - sz[1] ELSE o[1]
        py1 == IF o[2] + sz[2] > m.y2 + 1 THEN m.y2 + 1 - sz[2] ELSE o[2]
    IN  << Max(m.x1, px1), Max(m.y1, py1) >>

OverlayRectOf(m, mw, mh, pos, ow, oh) ==
    IF mw > 0 /\ mh > 0 /\ Width(m) > 0 /\ Height(m) > 0
    THEN LET sz == PreviewSize(m, mw, mh, ow, oh)
             o == ClampIntoMonitor(m, PreviewOrigin(m, mw, mh, pos), sz)
         IN  QRect(o[1], o[2], sz[1], sz[2])
    ELSE NullRect

\* Faulty variant of CalculateRects: no test of the drawable area.
CalculateRectsUnguarded(size, mw, mh, mar, pos, ow, oh, old) ==
    LET wr == DrawableArea(size)
        m == MonitorRectOf(wr, mar)
    IN  <<m, OverlayRectOf(m, mw, mh, pos, ow, oh)>>

\* Faulty variant of CalculateRectsDivisors: no test of the drawable area.
CalculateRectsDivisorsUnguarded(size, mw, mh, mar) ==
    LET wr == DrawableArea(size)
    IN  {Height(wr)}
        \cup (IF Width(wr) * mar[2] > mar[1] * Height(wr) THEN {} ELSE {mar[1]})
        \cup (IF mw > 0 /\ mh > 0 THEN {mw, mh} ELSE {})

\* The numbers _calculate_rects divides by on the given inputs: none when
\* it returns at the guard, otherwise the drawable height, the display
\* aspect ratio (a ratio n/d is zero when n is) in the width-bound branch,
\* and the display dimensions when the overlay is computed.
CalculateRectsDivisors(size, mw, mh, mar) ==
    LET wr == DrawableArea(size)
        m == MonitorRectOf(wr, mar)
    IN  IF Width(wr) <= 0 \/ Height(wr) <= 0 THEN {}
        ELSE {Height(wr)}
             \cup (IF Width(wr) * mar[2] > mar[1] * Height(wr) THEN {} ELSE {mar[1]})
             \cup (IF mw > 0 /\ mh > 0 /\ Width(m) > 0 /\ Height(m) > 0
                   THEN {mw, mh} ELSE {})

\* _calculate_rects on the given inputs: the new <<monitor_rect, overlay_rect>>,
\* or the old pair when the drawable area is empty.
CalculateRects(size, mw, mh, mar, pos, ow, oh, old) ==
    LET wr == DrawableArea(size)
    IN  IF Width(wr) <= 0 \/ Height(wr) <= 0 THEN old
        ELSE LET m == MonitorRectOf(wr, mar)
             IN  <<m, OverlayRectOf(m, mw, mh, pos, ow, oh)>>

\* ------------------------------------------------------------------------
\* Construction (__init__)
\* ------------------------------------------------------------------------
Init ==
    /\ monitor_aspect_ratio = Ratio(16, 9)
    /\ monitor_rect = NullRect
    /\ overlay_rect = NullRect
    /\ overlay_relative_pos = <<0, 0>>
    /\ overlay_actual_width = 50
    /\ overlay_actual_height = 50
    /\ overlay_aspect_ratio = Ratio(1, 1)
    /\ monitor_width_px = 1920
    /\ monitor_height_px = 1080
    /\ dragging_mode = HANDLE_NONE
    /\ drag_start_pos = <<0, 0>>
    /\ drag_start_rect = NullRect
    /\ widget_size \in WidgetSizes
    /\ cursor = "ArrowCursor"
    /\ emitted = 0
    /\ observed = <<>>
    /\ updated = FALSE
    /\ pre_drag_aspect = Ratio(1, 1)
    /\ pre_drag_canon = <<<<0, 0>>, 50, 50>>
    /\ drags = 0
    /\ moves = 0
    /\ last_op = "__init__"
    /\ interfered = FALSE
    /\ left_down = FALSE
    /\ slot = "idle"
    /\ event_emitted = 0
    /\ drag_candidate = <<>>
    /\ host_calls = 0

\* ------------------------------------------------------------------------
\* Host setters
\* ------------------------------------------------------------------------
\* Faulty variants of SetterEmits: a setter that notifies on every call,
\* and one that notifies whenever it found a change.
SetterEmitsAlways(changed) == 1
SetterEmitsOnChange(changed) == IF changed THEN 1 ELSE 0

\* Emissions of overlayGeometryChanged by a setter: setMonitorGeometry and
\* setOverlayInfo recompute and redraw, and emit nothing.
SetterEmits(changed) == 0

\* Faulty variant of setMonitorGeometry: valid values are stored, and the
\* frame recomputed and redrawn, whether or not they differ from the
\* current ones.
setMonitorGeometryAlways(width, height) ==
    LET changed == width > 0 /\ height > 0
        mar == Ratio(width, height)
        rects == CalculateRects(widget_size, width, height, mar,
                                overlay_relative_pos, overlay_actual_width,
                                overlay_actual_height, frame)
    IN  /\ IF changed
           THEN /\ monitor_width_px' = width
                /\ monitor_height_px' = height
                /\ monitor_aspect_ratio' = mar
                /\ monitor_rect' = rects[1]
                /\ overlay_rect' = rects[2]
           ELSE UNCHANGED <<display, frame>>
        /\ updated' = changed
        /\ emitted' = SetterEmits(changed)
        /\ observed' = <<>>
        /\ drag_candidate' = <<>>
        /\ UNCHANGED <<canon, overlay_aspect_ratio, session, widget_size, cursor,
                       pre_drag_aspect, pre_drag_canon,
                       drags>>

\* Faulty variant of setMonitorGeometry: an overlay larger than the new
\* display is cut down to it.
setMonitorGeometryFitsOverlay(width, height) ==
    LET changed == width > 0 /\ height > 0
                   /\ (monitor_width_px # width \/ monitor_height_px # height)
        mar == Ratio(width, height)
        new_w == Min(overlay_actual_width, width)
        new_h == Min(overlay_actual_height, height)
        rects == CalculateRects(widget_size, width, height, mar,
                                overlay_relative_pos, new_w, new_h, frame)
    IN  /\ IF changed
           THEN /\ monitor_width_px' = width
                /\ monitor_height_px' = height
                /\ monitor_aspect_ratio' = mar
                /\ overlay_actual_width' = new_w
                /\ overlay_actual_height' = new_h
                /\ monitor_rect' = rects[1]
                /\ overlay_rect' = rects[2]
           ELSE UNCHANGED <<display, frame, overlay_actual_width, overlay_actual_height>>
        /\ updated' = changed
        /\ emitted' = SetterEmits(changed)
        /\ observed' = <<>>
        /\ drag_candidate' = <<>>
        /\ UNCHANGED <<overlay_relative_pos, overlay_aspect_ratio, session, widget_size,
                       cursor, pre_drag_aspect, pre_drag_canon, drags>>

setMonitorGeometry(width, height) ==
    LET changed == width > 0 /\ height > 0
                   /\ (monitor_width_px # width \/ monitor_height_px # height)
        mar == Ratio(width, height)
        rects == CalculateRects(widget_size, width, height, mar,
                                overlay_relative_pos, overlay_actual_width,
                                overlay_actual_height, frame)
    IN  /\ IF changed
           THEN /\ monitor_width_px' = width
                /\ monitor_height_px' = height
                /\ monitor_aspect_ratio' = mar
                /\ monitor_rect' = rects[1]
                /\ overlay_rect' = rects[2]
           ELSE UNCHANGED <<display, frame>>
        /\ updated' = changed
        /\ emitted' = SetterEmits(changed)
        /\ observed' = <<>>
        /\ drag_candidate' = <<>>
        /\ UNCHANGED <<canon, overlay_aspect_ratio, session, widget_size, cursor,
                       pre_drag_aspect, pre_drag_canon,
                       drags>>

\* Faulty variant of AtLeastOne: the dimension stored as the caller gave it.
AsGiven(v) == v

\* new_w, new_h of setOverlayInfo: a dimension is at least 1 px.
AtLeastOne(v) == Max(1, v)

\* Faulty variant of setOverlayInfo: the frame is recomputed and redrawn on
\* every call.
setOverlayInfoAlways(rel_x, rel_y, overlay_actual_w, overlay_actual_h) ==
    LET new_pos == <<rel_x, rel_y>>
        new_w == AtLeastOne(overlay_actual_w)
        new_h == AtLeastOne(overlay_actual_h)
        size_changed == overlay_actual_width # new_w \/ overlay_actual_height # new_h
        rects == CalculateRects(widget_size, monitor_width_px, monitor_height_px,
                                monitor_aspect_ratio, new_pos, new_w, new_h, frame)
    IN  /\ overlay_relative_pos' = new_pos
        /\ overlay_actual_width' = new_w
        /\ overlay_actual_height' = new_h
        /\ overlay_aspect_ratio' =
              IF size_changed
              THEN (IF new_h > 0 THEN Ratio(new_w, new_h) ELSE Ratio(1, 1))
              ELSE overlay_aspect_ratio
        /\ monitor_rect' = rects[1] /\ overlay_rect' = rects[2]
        /\ updated' = TRUE
        /\ emitted' = 0
        /\ observed' = <<>>
        /\ drag_candidate' = <<>>
        /\ UNCHANGED <<display, session, widget_size, cursor, pre_drag_aspect, pre_drag_canon,
                       drags>>

setOverlayInfo(rel_x, rel_y, overlay_actual_w, overlay_actual_h) ==
    LET new_pos == <<rel_x, rel_y>>
        new_w == AtLeastOne(overlay_actual_w)
        new_h == AtLeastOne(overlay_actual_h)
        pos_changed == overlay_relative_pos # new_pos
        size_changed == overlay_actual_width # new_w \/ overlay_actual_height # new_h
        rects == CalculateRects(widget_size, monitor_width_px, monitor_height_px,
                                monitor_aspect_ratio, new_pos, new_w, new_h, frame)
    IN  /\ overlay_relative_pos' = new_pos
        /\ overlay_actual_width' = new_w
        /\ overlay_actual_height' = new_h
        /\ overlay_aspect_ratio' =
              IF size_changed
              THEN (IF new_h > 0 THEN Ratio(new_w, new_h) ELSE Ratio(1, 1))
              ELSE overlay_aspect_ratio
        /\ IF pos_changed \/ size_changed
           THEN monitor_rect' = rects[1] /\ overlay_rect' = rects[2]
           ELSE UNCHANGED frame
        /\ updated' = (pos_changed \/ size_changed)
        /\ emitted' = SetterEmits(pos_changed \/ size_changed)
        /\ observed' = <<>>
        /\ drag_candidate' = <<>>
        /\ UNCHANGED <<display, session, widget_size, cursor, pre_drag_aspect, pre_drag_canon,
                       drags>>

\* ------------------------------------------------------------------------
\* Widget events without a pointer
\* ------------------------------------------------------------------------
resizeEvent(size) ==
    LET rects == CalculateRects(size, monitor_width_px, monitor_height_px,
                                monitor_aspect_ratio, overlay_relative_pos,
                                overlay_actual_width, overlay_actual_height, frame)
    IN  /\ widget_size' = size
        /\ monitor_rect' = rects[1]
        /\ overlay_rect' = rects[2]
        /\ updated' = FALSE
        /\ emitted' = 0
        /\ observed' = <<>>
        /\ drag_candidate' = <<>>
        /\ UNCHANGED <<display, canon, overlay_aspect_ratio, session, cursor,
                       pre_drag_aspect, pre_drag_canon,
                       drags>>

\* paintEvent draws from the state and changes none of it.
paintEvent ==
    /\ updated' = FALSE
    /\ emitted' = 0
    /\ observed' = <<>>
    /\ drag_candidate' = <<>>
    /\ UNCHANGED <<display, canon, overlay_aspect_ratio, frame, session,
                   widget_size, cursor, pre_drag_aspect, pre_drag_canon,
                       drags>>

\* ------------------------------------------------------------------------
\* Hit testing
\* ------------------------------------------------------------------------
\* _get_handle_rects: the HANDLE_SIZE square centred on each corner.
HandleRect(r, kind) ==
    LET hs == HANDLE_SIZE
        hs_half == HANDLE_SIZE \div 2
    IN  CASE kind = HANDLE_TOP_LEFT -> QRect(r.x1 - hs_half, r.y1 - hs_half, hs, hs)
          [] kind = HANDLE_TOP_RIGHT -> QRect(r.x2 - hs_half, r.y1 - hs_half, hs, hs)
          [] kind = HANDLE_BOTTOM_LEFT -> QRect(r.x1 - hs_half, r.y2 - hs_half, hs, hs)
          [] kind = HANDLE_BOTTOM_RIGHT -> QRect(r.x2 - hs_half, r.y2 - hs_half, hs, hs)

\* Faulty variant of HandleAt: the body is tested before the handles.
HandleAtBodyFirst(r, pos) ==
    IF Contains(r, pos) THEN HANDLE_MOVE
    ELSE IF ~IsNull(r) /\ Contains(HandleRect(r, HANDLE_TOP_LEFT), pos) THEN HANDLE_TOP_LEFT
    ELSE IF ~IsNull(r) /\ Contains(HandleRect(r, HANDLE_TOP_RIGHT), pos) THEN HANDLE_TOP_RIGHT
    ELSE IF ~IsNull(r) /\ Contains(HandleRect(r, HANDLE_BOTTOM_LEFT), pos) THEN HANDLE_BOTTOM_LEFT
    ELSE IF ~IsNull(r) /\ Contains(HandleRect(r, HANDLE_BOTTOM_RIGHT), pos) THEN HANDLE_BOTTOM_RIGHT
    ELSE HANDLE_NONE

\* _get_handle_at on overlay rectangle r: the handles in dictionary order,
\* then the body.
HandleAt(r, pos) ==
    IF ~IsNull(r) /\ Contains(HandleRect(r, HANDLE_TOP_LEFT), pos) THEN HANDLE_TOP_LEFT
    ELSE IF ~IsNull(r) /\ Contains(HandleRect(r, HANDLE_TOP_RIGHT), pos) THEN HANDLE_TOP_RIGHT
    ELSE IF ~IsNull(r) /\ Contains(HandleRect(r, HANDLE_BOTTOM_LEFT), pos) THEN HANDLE_BOTTOM_LEFT
    ELSE IF ~IsNull(r) /\ Contains(HandleRect(r, HANDLE_BOTTOM_RIGHT), pos) THEN HANDLE_BOTTOM_RIGHT
    ELSE IF Contains(r, pos) THEN HANDLE_MOVE
    ELSE HANDLE_NONE

\* The cursor shape mouseMoveEvent sets for the handle under the pointer.
CursorFor(kind) ==
    IF kind \in {HANDLE_TOP_LEFT, HANDLE_BOTTOM_RIGHT} THEN "SizeFDiagCursor"
    ELSE IF kind \in {HANDLE_TOP_RIGHT, HANDLE_BOTTOM_LEFT} THEN "SizeBDiagCursor"
    ELSE IF kind = HANDLE_MOVE THEN "SizeAllCursor"
    ELSE "ArrowCursor"

\* ------------------------------------------------------------------------
\* Drag step: the candidate rectangle
\* ------------------------------------------------------------------------
\* event.globalPosition().toPoint(): the widget sits at a fixed place on
\* the screen, so global and widget coordinates differ by its origin.
WidgetOrigin == <<300, 200>>
\* Faulty variant of GlobalPosition: the position within the widget.
LocalPosition(pos) == pos

GlobalPosition(pos) == <<pos[1] + WidgetOrigin[1], pos[2] + WidgetOrigin[2]>>

\* Move: startRect translated by delta, its origin clamped into display_rect.
MoveCandidate(sr, m, delta) ==
    LET t == Translate(sr, delta)
        l == MoveLeft(t, Max(m.x1, Min(t.x1, m.x2 + 1 - Width(t))))
    IN  MoveTop(l, Max(m.y1, Min(l.y1, m.y2 + 1 - Height(l))))

MinWPreview == HANDLE_SIZE * 2 + 2
MinHPreview(ar) ==
    Max(HANDLE_SIZE * 2 + 2,
        IF ar[1] > 0 THEN RoundDiv(MinWPreview * ar[2], ar[1]) ELSE MinWPreview)

\* temp_w, temp_h, final_w, final_h before clamping: <<final_w, final_h>>
\* for the width startRect would get from the horizontal displacement.
UnclampedSize(raw_w, ar) ==
    LET temp_w == Max(MinWPreview, raw_w)
        temp_h == Max(MinHPreview(ar),
                      IF ar[1] > 0 THEN RoundDiv(temp_w * ar[2], ar[1]) ELSE temp_w)
        final_w == IF ar[1] > 0 THEN RoundDiv(temp_h * ar[1], ar[2]) ELSE temp_h
    IN  <<final_w, temp_h>>

\* Shrink-to-fit after clamping: shrink the axis that overshoots the ratio.
AspectFit(final_w, final_h, ar) ==
    IF ar[1] > 0
    THEN IF final_w * ar[2] < final_h * ar[1]
         THEN <<final_w, RoundDiv(final_w * ar[2], ar[1])>>
         ELSE <<RoundDiv(final_h * ar[1], ar[2]), final_h>>
    ELSE <<final_w, final_h>>

\* Faulty variant of FlooredSize: the size set without the floor.
Unfloored(sz, ar) == sz

\* The size floor applied by every setSize of a resize.
FlooredSize(sz, ar) == <<Max(MinWPreview, sz[1]), Max(MinHPreview(ar), sz[2])>>

ResizeBottomRight(sr, m, delta, ar) ==
    LET u == UnclampedSize(Width(sr) + delta[1], ar)
        new_right == Min(m.x2 + 1, sr.x1 + u[1])
        new_bottom == Min(m.y2 + 1, sr.y1 + u[2])
        f == FlooredSize(AspectFit(new_right - sr.x1, new_bottom - sr.y1, ar), ar)
    IN  SetSize(sr, f[1], f[2])

ResizeTopLeft(sr, m, delta, ar) ==
    LET u == UnclampedSize(Width(sr) - delta[1], ar)
        new_left == Max(m.x1, sr.x2 + 1 - u[1])
        new_top == Max(m.y1, sr.y2 + 1 - u[2])
        f == FlooredSize(AspectFit(sr.x2 + 1 - new_left, sr.y2 + 1 - new_top, ar), ar)
    IN  SetSize(SetTopLeft(sr, <<new_left, new_top>>), f[1], f[2])

ResizeBottomLeft(sr, m, delta, ar) ==
    LET u == UnclampedSize(Width(sr) - delta[1], ar)
        new_left == Max(m.x1, sr.x2 + 1 - u[1])
        new_bottom == Min(m.y2 + 1, sr.y1 + u[2])
        f == FlooredSize(AspectFit(sr.x2 + 1 - new_left, new_bottom - sr.y1, ar), ar)
    IN  SetSize(SetBottomLeft(sr, <<new_left, new_bottom>>), f[1], f[2])

ResizeTopRight(sr, m, delta, ar) ==
    LET u == UnclampedSize(Width(sr) + delta[1], ar)
        new_right == Min(m.x2 + 1, sr.x1 + u[1])
        new_top == Max(m.y1, sr.y2 + 1 - u[2])
        f == FlooredSize(AspectFit(new_right - sr.x1, sr.y2 + 1 - new_top, ar), ar)
    IN  SetSize(SetTopRight(sr, <<new_right, new_top>>), f[1], f[2])

\* Faulty variant of Candidate: the step starts from the current overlay_rect
\* instead of the rectangle captured at pointer-down.
CandidateFromOverlayRect(mode, sr, m, delta, ar) ==
    CASE mode = HANDLE_MOVE -> MoveCandidate(overlay_rect, m, delta)
      [] mode = HANDLE_BOTTOM_RIGHT -> ResizeBottomRight(overlay_rect, m, delta, ar)
      [] mode = HANDLE_TOP_LEFT -> ResizeTopLeft(overlay_rect, m, delta, ar)
      [] mode = HANDLE_BOTTOM_LEFT -> ResizeBottomLeft(overlay_rect, m, delta, ar)
      [] mode = HANDLE_TOP_RIGHT -> ResizeTopRight(overlay_rect, m, delta, ar)
      [] OTHER -> overlay_rect

\* new_rect of mouseMoveEvent for a drag in the given mode.
Candidate(mode, sr, m, delta, ar) ==
    CASE mode = HANDLE_MOVE -> MoveCandidate(sr, m, delta)
      [] mode = HANDLE_BOTTOM_RIGHT -> ResizeBottomRight(sr, m, delta, ar)
      [] mode = HANDLE_TOP_LEFT -> ResizeTopLeft(sr, m, delta, ar)
      [] mode = HANDLE_BOTTOM_LEFT -> ResizeBottomLeft(sr, m, delta, ar)
      [] mode = HANDLE_TOP_RIGHT -> ResizeTopRight(sr, m, delta, ar)
      [] OTHER -> sr

\* ------------------------------------------------------------------------
\* Drag step: canvas to real, apply, notify
\* ------------------------------------------------------------------------
\* new_actual_rel_x, new_actual_rel_y: the canvas origin in display pixels,
\* clamped at 0.
ToRealPos(n, m, mw, mh) ==
    << Max(0, RoundDiv((n.x1 - m.x1) * mw, Width(m))),
       Max(0, RoundDiv((n.y1 - m.y1) * mh, Height(m))) >>

\* new_actual_w, new_actual_h: the canvas size in display pixels, at least 1.
ToRealSize(n, m, mw, mh) ==
    << Max(1, RoundDiv(Width(n) * mw, Width(m))),
       Max(1, RoundDiv(Height(n) * mh, Height(m))) >>

\* Faulty variant of DragAspect: the aspect ratio is left as it was.
DragAspectStale(size_changed, w, h, old) == old

\* _overlay_aspect_ratio after the assignments of an applied drag step:
\* re-derived when the size changed (and the new height is positive).
DragAspect(size_changed, w, h, old) ==
    IF size_changed /\ h > 0 THEN Ratio(w, h) ELSE old

\* Faulty variant of DragEmits: every applied drag step notifies.
DragEmitsAlways(position_changed, size_changed) == 1

\* Faulty variant of DragEmits: a drag step that notifies of a new size only.
DragEmitsOnSizeChange(position_changed, size_changed) ==
    IF size_changed THEN 1 ELSE 0

\* Emissions of overlayGeometryChanged by one applied drag step.
DragEmits(position_changed, size_changed) ==
    IF position_changed \/ size_changed THEN 1 ELSE 0

\* ------------------------------------------------------------------------
\* Pointer events
\* ------------------------------------------------------------------------
\* The left button goes down only while it is up (no drag active) and the
\* run's drag sessions are not used up; another button at any time.
PressEvents ==
    (IF ~left_down /\ drags < MaxDrags
     THEN Points \X {"LeftButton"} ELSE {})
    \cup {<<ElsewherePoint, "RightButton">>}
ReleaseEvents ==
    (IF left_down THEN CursorPoints \X {"LeftButton"} ELSE {})
    \cup {<<ElsewherePoint, "RightButton">>}
DragMoveEvents == (Points \X {TRUE}) \cup {<<ElsewherePoint, FALSE>>}
HoverMoveEvents == (CursorPoints \X {FALSE}) \cup {<<ElsewherePoint, TRUE>>}

\* Whether a pointer-down starts a drag session.
StartsDrag(pos, button) ==
    /\ button = "LeftButton"
    /\ Contains(monitor_rect, pos)
    /\ HandleAt(overlay_rect, pos) # HANDLE_NONE

mousePressEvent(pos, button) ==
    /\ IF button = "LeftButton" /\ Contains(monitor_rect, pos)
       THEN /\ dragging_mode' = HandleAt(overlay_rect, pos)
            /\ IF HandleAt(overlay_rect, pos) # HANDLE_NONE
               THEN /\ drag_start_pos' = GlobalPosition(pos)
                    /\ drag_start_rect' = overlay_rect
                    /\ updated' = TRUE
                    /\ pre_drag_aspect' = overlay_aspect_ratio
                    /\ pre_drag_canon' = canon
                    /\ drags' = drags + 1
               ELSE /\ updated' = FALSE
                    /\ UNCHANGED <<drag_start_pos, drag_start_rect, pre_drag_aspect, pre_drag_canon,
                       drags>>
       ELSE /\ updated' = FALSE
            /\ UNCHANGED <<session, pre_drag_aspect, pre_drag_canon,
                       drags>>
    /\ emitted' = 0
    /\ observed' = <<>>
    /\ drag_candidate' = <<>>
    /\ UNCHANGED <<display, canon, overlay_aspect_ratio, frame, widget_size, cursor>>

\* Faulty variant of HoverCursor: the guard of part 1 inverted, the cursor
\* follows the pointer during a drag and is left alone otherwise.
HoverCursorWhileDragging(mode, r, pos, old) ==
    IF mode # HANDLE_NONE THEN CursorFor(HandleAt(r, pos)) ELSE old

\* Part 1 of mouseMoveEvent: the cursor follows the handle under the
\* pointer while no drag is active.
HoverCursor(mode, r, pos, old) ==
    IF mode = HANDLE_NONE THEN CursorFor(HandleAt(r, pos)) ELSE old

\* Faulty variant of DragActive: the buttons of the move are not looked at.
DragActiveAnyButton(mode, left_held) == mode # HANDLE_NONE

\* The guard of part 2 of mouseMoveEvent: a drag session exists and the
\* move reports the left button as held.
DragActive(mode, left_held) == mode # HANDLE_NONE /\ left_held

\* Faulty variant of SeenBySlot: the signal raised before the assignments.
SeenBeforeAssignments(before, after) == before

\* What a slot connected directly to overlayGeometryChanged finds in the
\* widget (canonical state, aspect ratio, overlay_rect): emit() comes after
\* every assignment of the drag step, so it is the state after them.
SeenBySlot(before, after) == after

\* Parts 2 and 3 of mouseMoveEvent; left_held is
\* event.buttons() & Qt.MouseButton.LeftButton.
mouseMoveEvent(pos, left_held) ==
    LET delta == << GlobalPosition(pos)[1] - drag_start_pos[1],
                    GlobalPosition(pos)[2] - drag_start_pos[2] >>
        dragging == DragActive(dragging_mode, left_held)
    IN  \E new_rect \in {IF dragging
                         THEN Candidate(dragging_mode, drag_start_rect, monitor_rect,
                                        delta, overlay_aspect_ratio)
                         ELSE overlay_rect} :
        LET applies == /\ dragging
                       /\ overlay_rect # new_rect
                       /\ Width(monitor_rect) > 0
                       /\ Height(monitor_rect) > 0
        IN  \E new_pos \in {IF applies
                            THEN ToRealPos(new_rect, monitor_rect, monitor_width_px,
                                           monitor_height_px)
                            ELSE overlay_relative_pos},
               new_size \in {IF applies
                             THEN ToRealSize(new_rect, monitor_rect, monitor_width_px,
                                             monitor_height_px)
                             ELSE <<overlay_actual_width, overlay_actual_height>>} :
            LET position_changed == overlay_relative_pos # new_pos
                size_changed == overlay_actual_width # new_size[1]
                                \/ overlay_actual_height # new_size[2]
            IN  \E new_aspect \in {DragAspect(size_changed, new_size[1], new_size[2],
                                              overlay_aspect_ratio)} :
                /\ cursor' = HoverCursor(dragging_mode, overlay_rect, pos, cursor)
                /\ drag_candidate' = IF dragging THEN new_rect ELSE <<>>
                /\ IF applies
                   THEN /\ overlay_relative_pos' = new_pos
                        /\ overlay_actual_width' = new_size[1]
                        /\ overlay_actual_height' = new_size[2]
                        /\ overlay_aspect_ratio' = new_aspect
                        /\ overlay_rect' = new_rect
                        /\ emitted' = DragEmits(position_changed, size_changed)
                        /\ observed' =
                              IF DragEmits(position_changed, size_changed) > 0
                              THEN SeenBySlot(<<canon, overlay_aspect_ratio, overlay_rect>>,
                                              <<<<new_pos, new_size[1], new_size[2]>>,
                                                new_aspect, new_rect>>)
                              ELSE <<>>
                        /\ updated' = TRUE
                   ELSE /\ emitted' = 0
                        /\ observed' = <<>>
                        /\ updated' = FALSE
                        /\ UNCHANGED <<canon, overlay_aspect_ratio, overlay_rect>>
                /\ UNCHANGED <<display, monitor_rect, session, widget_size, pre_drag_aspect,
                               pre_drag_canon, drags>>

\* Faulty variant of mouseReleaseEvent: the drag ends only when the button
\* is released inside display_rect.
mouseReleaseEventInsideOnly(pos, button) ==
    IF button = "LeftButton" /\ dragging_mode # HANDLE_NONE /\ Contains(monitor_rect, pos)
    THEN /\ dragging_mode' = HANDLE_NONE
         /\ cursor' = HoverCursor(HANDLE_NONE, overlay_rect, pos, cursor)
         /\ updated' = TRUE
         /\ emitted' = 0
         /\ observed' = <<>>
         /\ drag_candidate' = <<>>
         /\ UNCHANGED <<display, canon, overlay_aspect_ratio, frame, drag_start_pos,
                        drag_start_rect, widget_size, pre_drag_aspect, pre_drag_canon,
                       drags>>
    ELSE /\ updated' = FALSE
         /\ emitted' = 0
         /\ observed' = <<>>
         /\ drag_candidate' = <<>>
         /\ UNCHANGED <<display, canon, overlay_aspect_ratio, frame, session,
                        widget_size, cursor, pre_drag_aspect, pre_drag_canon,
                       drags>>

\* Faulty variant of mouseReleaseEvent: a release never ends the drag.
mouseReleaseEventKeepsDrag(pos, button) ==
    /\ updated' = FALSE
    /\ emitted' = 0
    /\ observed' = <<>>
    /\ drag_candidate' = <<>>
    /\ UNCHANGED <<display, canon, overlay_aspect_ratio, frame, session,
                   widget_size, cursor, pre_drag_aspect, pre_drag_canon,
                       drags>>

\* mouseReleaseEvent: a left release ends the drag and re-runs
\* mouseMoveEvent, which then only sets the cursor.
mouseReleaseEvent(pos, button) ==
    IF button = "LeftButton" /\ dragging_mode # HANDLE_NONE
    THEN /\ dragging_mode' = HANDLE_NONE
         /\ cursor' = HoverCursor(HANDLE_NONE, overlay_rect, pos, cursor)
         /\ updated' = TRUE
         /\ emitted' = 0
         /\ observed' = <<>>
         /\ drag_candidate' = <<>>
         /\ UNCHANGED <<display, canon, overlay_aspect_ratio, frame, drag_start_pos,
                        drag_start_rect, widget_size, pre_drag_aspect, pre_drag_canon,
                       drags>>
    ELSE /\ updated' = FALSE
         /\ emitted' = 0
         /\ observed' = <<>>
         /\ drag_candidate' = <<>>
         /\ UNCHANGED <<display, canon, overlay_aspect_ratio, frame, session,
                        widget_size, cursor, pre_drag_aspect, pre_drag_canon,
                       drags>>

\* ------------------------------------------------------------------------
\* Specification
\* ------------------------------------------------------------------------
\* The host pushes one of its own values or echoes the canonical state back.
HostOverlayArgs ==
    OverlayArgs \cup { <<overlay_relative_pos[1], overlay_relative_pos[2],
                         overlay_actual_width, overlay_actual_height>> }

HostCall ==
    /\ host_calls < MaxHostCalls
    /\ host_calls' = host_calls + 1
    /\ interfered' = (interfered \/ dragging_mode # HANDLE_NONE)
    /\ UNCHANGED <<moves, left_down, reentry>>

SetMonitor ==
    /\ HostCall
    /\ \E w \in MonitorWidths, h \in MonitorHeights : setMonitorGeometry(w, h)
    /\ last_op' = "setMonitorGeometry"
SetOverlay ==
    /\ HostCall
    /\ \E a \in HostOverlayArgs : setOverlayInfo(a[1], a[2], a[3], a[4])
    /\ last_op' = "setOverlayInfo"
Resize ==
    /\ HostCall
    /\ \E s \in WidgetSizes : resizeEvent(s)
    /\ last_op' = "resizeEvent"
Paint ==
    /\ paintEvent
    /\ last_op' = "paintEvent"
    /\ UNCHANGED <<host_calls, moves, interfered, left_down, reentry>>
Press ==
    /\ \E e \in PressEvents :
          /\ mousePressEvent(e[1], e[2])
          /\ moves' = IF StartsDrag(e[1], e[2]) THEN 0 ELSE moves
          /\ interfered' = IF StartsDrag(e[1], e[2]) THEN FALSE ELSE interfered
          /\ left_down' = (left_down \/ e[2] = "LeftButton")
    /\ last_op' = "mousePressEvent"
    /\ UNCHANGED <<host_calls, reentry>>
DragMove ==
    /\ dragging_mode # HANDLE_NONE
    /\ moves < MaxMoves
    /\ \E e \in DragMoveEvents : mouseMoveEvent(e[1], e[2])
    /\ moves' = moves + 1
    /\ last_op' = "mouseMoveEvent"
    /\ UNCHANGED <<host_calls, interfered, left_down, reentry>>
HoverMove ==
    /\ dragging_mode = HANDLE_NONE
    /\ \E e \in HoverMoveEvents : mouseMoveEvent(e[1], e[2])
    /\ last_op' = "mouseMoveEvent"
    /\ UNCHANGED <<host_calls, moves, interfered, left_down, reentry>>
Release ==
    /\ \E e \in ReleaseEvents :
          /\ mouseReleaseEvent(e[1], e[2])
          /\ left_down' = (left_down /\ e[2] # "LeftButton")
    /\ last_op' = "mouseReleaseEvent"
    /\ UNCHANGED <<host_calls, moves, interfered, reentry>>

Next ==
    \/ SetMonitor
    \/ SetOverlay
    \/ Resize
    \/ Paint
    \/ Press
    \/ DragMove
    \/ HoverMove
    \/ Release

Spec == Init /\ [][Next]_vars

\* ------------------------------------------------------------------------
\* The frame recompute on its own
\* ------------------------------------------------------------------------
\* _calculate_rects as a function of the widget size, DisplaySpec and
\* OverlaySpec: the setters and resizeEvent applied to a wider range of
\* inputs, without pointer events.  The sizes include a large widget and
\* the sizes whose drawable area is empty, which _calculate_rects guards
\* against although setMinimumSize(100, 50) keeps the shown widget above them.
EmptySizes == {<<2, 2>>, <<1, 50>>, <<100, 2>>}
FrameWidgetSizes == WidgetSizes \cup {<<400, 300>>} \cup EmptySizes
FrameOverlayArgs == OverlayArgs \cup {<<100, 100, 400, 300>>, <<0, 0, 192, 108>>}

SetOverlayAny ==
    /\ HostCall
    /\ \E a \in FrameOverlayArgs : setOverlayInfo(a[1], a[2], a[3], a[4])
    /\ last_op' = "setOverlayInfo"
ResizeAny ==
    /\ HostCall
    /\ \E s \in FrameWidgetSizes : resizeEvent(s)
    /\ last_op' = "resizeEvent"

FrameNext ==
    \/ SetMonitor
    \/ SetOverlayAny
    \/ ResizeAny

FrameSpec == Init /\ [][FrameNext]_vars

\* ------------------------------------------------------------------------
\* Divisions
\* ------------------------------------------------------------------------
\* The numbers each handler divides by when called in the current state
\* (a ratio n/d is zero when n is).  setMonitorGeometry: height, then the
\* recompute, both under its guards.
setMonitorGeometryDivisors(width, height) ==
    IF width > 0 /\ height > 0 /\ (monitor_width_px # width \/ monitor_height_px # height)
    THEN {height} \cup CalculateRectsDivisors(widget_size, width, height,
                                              Ratio(width, height))
    ELSE {}

\* setOverlayInfo: the new height when the size changed, then the recompute.
setOverlayInfoDivisors(rel_x, rel_y, overlay_actual_w, overlay_actual_h) ==
    LET new_w == AtLeastOne(overlay_actual_w)
        new_h == AtLeastOne(overlay_actual_h)
        pos_changed == overlay_relative_pos # <<rel_x, rel_y>>
        size_changed == overlay_actual_width # new_w \/ overlay_actual_height # new_h
    IN  (IF size_changed /\ new_h > 0 THEN {new_h} ELSE {})
        \cup (IF pos_changed \/ size_changed
              THEN CalculateRectsDivisors(widget_size, monitor_width_px,
                                          monitor_height_px, monitor_aspect_ratio)
              ELSE {})

\* mouseMoveEvent: the overlay aspect ratio in a resize (each division is
\* under `> 0`), the dimensions of display_rect when the step applies, and
\* the new height when the size changed.
mouseMoveEventDivisors(pos, left_held) ==
    LET delta == << GlobalPosition(pos)[1] - drag_start_pos[1],
                    GlobalPosition(pos)[2] - drag_start_pos[2] >>
        new_rect == Candidate(dragging_mode, drag_start_rect, monitor_rect, delta,
                              overlay_aspect_ratio)
        new_size == ToRealSize(new_rect, monitor_rect, monitor_width_px, monitor_height_px)
    IN  IF dragging_mode # HANDLE_NONE /\ left_held
        THEN (IF dragging_mode # HANDLE_MOVE /\ overlay_aspect_ratio[1] > 0
              THEN {overlay_aspect_ratio[1]} ELSE {})
             \cup (IF overlay_rect # new_rect /\ Width(monitor_rect) > 0
                      /\ Height(monitor_rect) > 0
                   THEN {Width(monitor_rect), Height(monitor_rect)}
                        \cup (IF (overlay_actual_width # new_size[1]
                                  \/ overlay_actual_height # new_size[2])
                                 /\ new_size[2] > 0
                              THEN {new_size[2]} ELSE {})
                   ELSE {})
        ELSE {}

\* Setters with any integers, resizes down to an empty drawable area and
\* drags on whatever frame they leave.
DivisionNext ==
    \/ SetMonitor
    \/ SetOverlay
    \/ ResizeAny
    \/ Press
    \/ DragMove
    \/ Release

DivisionSpec == Init /\ [][DivisionNext]_vars

\* ------------------------------------------------------------------------
\* A slot that calls the setters back
\* ------------------------------------------------------------------------
\* The host connects overlayGeometryChanged to a slot that reads the getters
\* and then calls setMonitorGeometry and setOverlayInfo with its own values.
\* PySide runs the slot inside emit(): the drag step stops at the emit, the
\* slot's two calls run, and the drag step ends with its update().  A
\* setter that emitted would re-enter the slot from its start.
SlotMonitorArgs == {<<1920, 1080>>, <<360, 1080>>}
SlotOverlayArgs ==
    {<<5, 0, 800, 450>>,
     <<overlay_relative_pos[1], overlay_relative_pos[2],
       overlay_actual_width, overlay_actual_height>>}

IdleResize == slot = "idle" /\ Resize
IdlePress == slot = "idle" /\ Press
IdleRelease == slot = "idle" /\ Release
ObservedDragMove ==
    /\ slot = "idle"
    /\ dragging_mode # HANDLE_NONE
    /\ moves < MaxMoves
    /\ \E e \in DragMoveEvents : mouseMoveEvent(e[1], e[2])
    /\ moves' = moves + 1
    /\ last_op' = "mouseMoveEvent"
    /\ slot' = IF emitted' > 0 THEN "setMonitorGeometry" ELSE "idle"
    /\ event_emitted' = emitted'
    /\ UNCHANGED <<host_calls, interfered, left_down>>
SlotSetMonitor ==
    /\ slot = "setMonitorGeometry"
    /\ \E a \in SlotMonitorArgs : setMonitorGeometry(a[1], a[2])
    /\ last_op' = "setMonitorGeometry"
    /\ slot' = IF emitted' > 0 THEN "setMonitorGeometry" ELSE "setOverlayInfo"
    /\ event_emitted' = event_emitted + emitted'
    /\ interfered' = TRUE
    /\ UNCHANGED <<host_calls, moves, left_down>>
SlotSetOverlay ==
    /\ slot = "setOverlayInfo"
    /\ \E a \in SlotOverlayArgs : setOverlayInfo(a[1], a[2], a[3], a[4])
    /\ last_op' = "setOverlayInfo"
    /\ slot' = IF emitted' > 0 THEN "setMonitorGeometry" ELSE "update"
    /\ event_emitted' = event_emitted + emitted'
    /\ interfered' = TRUE
    /\ UNCHANGED <<host_calls, moves, left_down>>
SlotReturn ==
    /\ slot = "update"
    /\ slot' = "idle"
    /\ updated' = TRUE
    /\ emitted' = event_emitted
    /\ observed' = <<>>
    /\ drag_candidate' = <<>>
    /\ last_op' = "mouseMoveEvent"
    /\ UNCHANGED <<display, canon, overlay_aspect_ratio, frame, session, widget_size,
                   cursor, pre_drag_aspect, pre_drag_canon, drags, moves, interfered,
                   left_down, event_emitted, host_calls>>

ObserverNext ==
    \/ IdleResize
    \/ IdlePress
    \/ IdleRelease
    \/ ObservedDragMove
    \/ SlotSetMonitor
    \/ SlotSetOverlay
    \/ SlotReturn

ObserverSpec == Init /\ [][ObserverNext]_vars

\* ------------------------------------------------------------------------
\* Properties
\* ------------------------------------------------------------------------
\* Rectangle o lies inside rectangle m on all four edges.
Within(o, m) == o.x1 >= m.x1 /\ o.y1 >= m.y1 /\ o.x2 <= m.x2 /\ o.y2 <= m.y2

ValidDisplaySpec == monitor_width_px > 0 /\ monitor_height_px > 0
ValidOverlaySpec ==
    /\ overlay_relative_pos[1] >= 0 /\ overlay_relative_pos[2] >= 0
    /\ overlay_actual_width >= 1 /\ overlay_actual_height >= 1

\* The last handler called _calculate_rects: resizeEvent always does, a
\* setter does when it found a change, which is also when it calls
\* update().  Under Spec the call runs to its end, since no widget size of
\* Spec has an empty drawable area.
RecomputeRan ==
    \/ last_op = "resizeEvent"
    \/ last_op \in {"setMonitorGeometry", "setOverlayInfo"} /\ updated

\* The last handler was a pointer-move that applied a drag step
\* (mouseMoveEvent calls update() exactly then).
DragStepApplied == last_op = "mouseMoveEvent" /\ updated

ResizeModes ==
    {HANDLE_TOP_LEFT, HANDLE_TOP_RIGHT, HANDLE_BOTTOM_LEFT, HANDLE_BOTTOM_RIGHT}

\* C1: for every valid DisplaySpec and OverlaySpec, after the frame
\* recompute (run by setMonitorGeometry, setOverlayInfo and resizeEvent)
\* overlay_rect is contained in display_rect on all four edges.
C1_OverlayWithinDisplayAfterRecompute ==
    (RecomputeRan /\ ValidDisplaySpec /\ ValidOverlaySpec)
        => Within(overlay_rect, monitor_rect)

\* C2: after every drag step of a drag session that started with
\* overlay_rect contained in display_rect (and that no setter or resize
\* interfered with), overlay_rect is still contained in display_rect.
C2_OverlayWithinDisplayAfterDragStep ==
    (DragStepApplied /\ ~interfered /\ Within(drag_start_rect, monitor_rect))
        => Within(overlay_rect, monitor_rect)

\* C3: setOverlayInfo called with relative_x, relative_y, width_px and
\* height_px all identical to the current canonical state never raises
\* overlayGeometryChanged, in any reachable state, a drag included.
C3_IdenticalSetOverlayNeverEmits ==
    [][ ( /\ last_op' = "setOverlayInfo"
          /\ setOverlayInfo(overlay_relative_pos[1], overlay_relative_pos[2],
                            overlay_actual_width, overlay_actual_height) )
        => emitted' = 0 ]_vars

\* A value-identical setOverlayInfo has just run in the middle of a drag.
C3_Witness ==
    /\ last_op = "setOverlayInfo"
    /\ ~updated
    /\ dragging_mode # HANDLE_NONE
    /\ emitted = 0

\* C4: overlayGeometryChanged is emitted only while handling a pointer-move
\* during an active drag: setMonitorGeometry, setOverlayInfo (even with
\* differing values), pointer-down, pointer-up, resize and paint never emit.
C4_EmittedOnlyByDragMove ==
    emitted > 0 => (last_op = "mouseMoveEvent" /\ dragging_mode # HANDLE_NONE)

\* setOverlayInfo has just changed the canonical state and emitted nothing.
C4_Witness ==
    /\ last_op = "setOverlayInfo"
    /\ updated
    /\ overlay_actual_width = 300
    /\ emitted = 0

\* C5: each pointer-move drag step raises overlayGeometryChanged exactly
\* once if the canonical tuple (relative_x, relative_y, width_px, height_px)
\* after the step differs from the tuple before it, and zero times if the
\* tuple is unchanged.
C5_OneEmissionPerCanonicalChange ==
    [][ (last_op' = "mouseMoveEvent" /\ dragging_mode # HANDLE_NONE)
        => emitted' = (IF canon' # canon THEN 1 ELSE 0) ]_vars

\* A drag step has just changed the canonical state and emitted once.
C5_Witness ==
    /\ last_op = "mouseMoveEvent"
    /\ dragging_mode = HANDLE_MOVE
    /\ emitted = 1
    /\ overlay_relative_pos = <<0, 0>>

\* The corner opposite the dragged handle is where startRect has it.
PinnedCornerKept ==
    CASE dragging_mode = HANDLE_TOP_LEFT ->
             overlay_rect.x2 = drag_start_rect.x2 /\ overlay_rect.y2 = drag_start_rect.y2
      [] dragging_mode = HANDLE_TOP_RIGHT ->
             overlay_rect.x1 = drag_start_rect.x1 /\ overlay_rect.y2 = drag_start_rect.y2
      [] dragging_mode = HANDLE_BOTTOM_LEFT ->
             overlay_rect.x2 = drag_start_rect.x2 /\ overlay_rect.y1 = drag_start_rect.y1
      [] dragging_mode = HANDLE_BOTTOM_RIGHT ->
             overlay_rect.x1 = drag_start_rect.x1 /\ overlay_rect.y1 = drag_start_rect.y1
      [] OTHER -> TRUE

\* C6: in each of the four resize modes, after every drag step the corner
\* opposite the dragged handle has the same canvas coordinates as in
\* startRect, also when the growing edge is clamped or the size re-derived.
C6_PinnedCornerNeverMoves ==
    ( /\ DragStepApplied
      /\ ~interfered
      /\ dragging_mode \in ResizeModes
      /\ Within(drag_start_rect, monitor_rect) )
        => PinnedCornerKept

\* C7: resizing via the bottom-right handle with the pointer moved past the
\* display's right edge yields overlay_rect.right <= display_rect.right and
\* leaves the top-left corner of overlay_rect at startRect's top-left.
C7_BottomRightPastRightEdge ==
    [][ ( /\ last_op' = "mouseMoveEvent"
          /\ dragging_mode = HANDLE_BOTTOM_RIGHT
          /\ ~interfered
          /\ updated'
          /\ \E p \in Points :
                p[1] > monitor_rect.x2 /\ mouseMoveEvent(p, TRUE) )
        => ( /\ overlay_rect'.x2 <= monitor_rect'.x2
             /\ overlay_rect'.x1 = drag_start_rect.x1
             /\ overlay_rect'.y1 = drag_start_rect.y1 ) ]_vars

\* C8: for every sequence of resize pointer-moves within one drag on an
\* overlay_rect of at least 20x20 canvas px, |width - height * r| <= 1 for
\* the resulting overlay_rect, r being the overlay aspect ratio before the
\* drag started.
C8_AspectKeptAcrossResizeMoves ==
    ( /\ DragStepApplied
      /\ ~interfered
      /\ dragging_mode \in ResizeModes
      /\ Within(drag_start_rect, monitor_rect)
      /\ Width(drag_start_rect) >= 20 /\ Height(drag_start_rect) >= 20
      /\ Width(overlay_rect) >= 20 /\ Height(overlay_rect) >= 20 )
        => Abs(Width(overlay_rect) * pre_drag_aspect[2]
               - Height(overlay_rect) * pre_drag_aspect[1]) <= pre_drag_aspect[2]

\* C9: a Move drag step with the pointer past the left edge of the display
\* yields relative_x = 0 (a release changes nothing after it), and after any
\* drag step relative_x and relative_y are not negative; stated for drags
\* whose OverlaySpec was valid before the step.
C9_MovePastLeftEdgeYieldsZero ==
    [][ ( /\ last_op' = "mouseMoveEvent"
          /\ dragging_mode # HANDLE_NONE
          /\ ~interfered
          /\ ValidOverlaySpec )
        => ( /\ overlay_relative_pos'[1] >= 0
             /\ overlay_relative_pos'[2] >= 0
             /\ ( ( /\ dragging_mode = HANDLE_MOVE
                    /\ \E p \in Points :
                          p[1] < monitor_rect.x1 /\ mouseMoveEvent(p, TRUE) )
                  => overlay_relative_pos'[1] = 0 ) ) ]_vars

\* C10: in every reachable state the canonical overlay offsets satisfy
\* relative_x >= 0 and relative_y >= 0.
C10_OffsetsNeverNegative ==
    overlay_relative_pos[1] >= 0 /\ overlay_relative_pos[2] >= 0

\* C11: in every reachable state the canonical overlay dimensions are at
\* least 1: setOverlayInfo stores 1 for a non-positive width or height, and
\* no drag step stores a dimension below 1.
C11_DimensionsAtLeastOne ==
    overlay_actual_width >= 1 /\ overlay_actual_height >= 1

\* setOverlayInfo has just been called with width 0 and height 0 and has
\* stored 1 for both.
C11_Witness ==
    /\ last_op = "setOverlayInfo"
    /\ overlay_relative_pos = <<-5, 0>>
    /\ overlay_actual_width = 1
    /\ overlay_actual_height = 1

\* The corner kinds in the order TL, TR, BL, BR.
Corners == {HANDLE_TOP_LEFT, HANDLE_TOP_RIGHT, HANDLE_BOTTOM_LEFT, HANDLE_BOTTOM_RIGHT}

\* Point p lies in the HANDLE_SIZE square centred on the corner of r that
\* kind names (HANDLE_SIZE \div 2 pixels before the corner, the rest from it on).
InHandleSquare(r, kind, p) ==
    LET cx == IF kind \in {HANDLE_TOP_LEFT, HANDLE_BOTTOM_LEFT} THEN r.x1 ELSE r.x2
        cy == IF kind \in {HANDLE_TOP_LEFT, HANDLE_TOP_RIGHT} THEN r.y1 ELSE r.y2
        before == HANDLE_SIZE \div 2
    IN  /\ cx - before <= p[1] /\ p[1] < cx - before + HANDLE_SIZE
        /\ cy - before <= p[2] /\ p[2] < cy - before + HANDLE_SIZE

\* The kind the hit-testing rule prescribes for point p on rectangle r.
PrescribedKind(r, p) ==
    IF \E k \in Corners : InHandleSquare(r, k, p)
    THEN CHOOSE k \in Corners :
             /\ InHandleSquare(r, k, p)
             /\ \A j \in Corners : j < k => ~InHandleSquare(r, j, p)
    ELSE IF r.x1 <= p[1] /\ p[1] <= r.x2 /\ r.y1 <= p[2] /\ p[2] <= r.y2
         THEN HANDLE_MOVE
         ELSE HANDLE_NONE

\* Points on both sides of every edge of every handle square of r, and
\* the middle of r.
ProbesAround(r) ==
    LET xs == {r.x1 - 5, r.x1 - 4, r.x1 + 3, r.x1 + 4, (r.x1 + r.x2) \div 2,
               r.x2 - 5, r.x2 - 4, r.x2 + 3, r.x2 + 4}
        ys == {r.y1 - 5, r.y1 - 4, r.y1 + 3, r.y1 + 4, (r.y1 + r.y2) \div 2,
               r.y2 - 5, r.y2 - 4, r.y2 + 3, r.y2 + 4}
    IN  (xs \X {r.y1, (r.y1 + r.y2) \div 2, r.y2})
            \cup ({r.x1, (r.x1 + r.x2) \div 2, r.x2} \X ys)

\* The widget position of the pointer-down that started the drag session.
PressPoint == <<drag_start_pos[1] - WidgetOrigin[1], drag_start_pos[2] - WidgetOrigin[2]>>

\* C12: on a non-null overlay_rect (probed whenever a recompute or a drag
\* step has just written it), handleAt returns the first of TL, TR,
\* BL, BR whose handle square contains the point, otherwise Move when the
\* point is inside overlay_rect, otherwise None; a point in both a handle
\* square and the body yields the corner kind.  The mode a pointer-down gives
\* a drag session is that kind.
C12_HandleAtPriority ==
    /\ (~IsNull(overlay_rect) /\ (RecomputeRan \/ DragStepApplied)) =>
           \A p \in ProbesAround(overlay_rect) :
               HandleAt(overlay_rect, p) = PrescribedKind(overlay_rect, p)
    /\ (last_op = "mousePressEvent" /\ updated) =>
           dragging_mode = PrescribedKind(drag_start_rect, PressPoint)

\* A pointer-down on a point inside both the top-left handle square and the
\* body has started a TL resize.
C12_Witness ==
    /\ last_op = "mousePressEvent"
    /\ updated
    /\ Contains(drag_start_rect, PressPoint)
    /\ InHandleSquare(drag_start_rect, HANDLE_TOP_LEFT, PressPoint)
    /\ dragging_mode = HANDLE_TOP_LEFT

\* C13: a pointer-down starts a drag session exactly when it is a left-button
\* press at a point inside display_rect whose hit test is not None; the mode
\* then becomes the hit kind, startRect the current overlay_rect and the
\* anchor the pointer's global position.  Every other pointer-down (other
\* button, outside display_rect, on nothing) leaves the mode, the anchor and
\* startRect as they were, so an idle controller stays idle.
C13_DragStartsOnLeftPressOnTarget ==
    [][last_op' = "mousePressEvent" =>
       \A e \in Points \X {"LeftButton", "RightButton"} :
          mousePressEvent(e[1], e[2]) =>
              IF /\ e[2] = "LeftButton"
                 /\ Contains(monitor_rect, e[1])
                 /\ PrescribedKind(overlay_rect, e[1]) # HANDLE_NONE
              THEN /\ dragging_mode' = PrescribedKind(overlay_rect, e[1])
                   /\ dragging_mode' # HANDLE_NONE
                   /\ drag_start_rect' = overlay_rect
                   /\ drag_start_pos' = <<WidgetOrigin[1] + e[1][1], WidgetOrigin[2] + e[1][2]>>
              ELSE /\ dragging_mode' = dragging_mode
                   /\ drag_start_pos' = drag_start_pos
                   /\ drag_start_rect' = drag_start_rect]_vars

\* A left press on the body of the overlay has started a Move session
\* anchored at that point, with startRect the overlay_rect of the moment.
C13_Witness ==
    /\ last_op = "mousePressEvent"
    /\ updated
    /\ dragging_mode = HANDLE_MOVE
    /\ drag_start_rect = overlay_rect
    /\ drag_start_pos = <<WidgetOrigin[1] + 20, WidgetOrigin[2] + 12>>

\* C14: releasing the left button while a drag is active sets the mode to
\* None whatever the pointer position and whatever the drag mode; releasing
\* another button leaves the drag active.
C14_LeftReleaseEndsDrag ==
    [][(last_op' = "mouseReleaseEvent" /\ dragging_mode # HANDLE_NONE) =>
       \A e \in CursorPoints \X {"LeftButton", "RightButton"} :
          mouseReleaseEvent(e[1], e[2]) =>
              /\ e[2] = "LeftButton" => dragging_mode' = HANDLE_NONE
              /\ e[2] # "LeftButton" => dragging_mode' = dragging_mode]_vars

\* A drag has just been ended by a release at a point where nothing is
\* under the pointer.
C14_Witness ==
    /\ last_op = "mouseReleaseEvent"
    /\ updated
    /\ drags = 1
    /\ dragging_mode = HANDLE_NONE
    /\ ~left_down
    /\ cursor = "ArrowCursor"

\* C15: when left presses and left releases alternate, interleaved with
\* setter calls and resizes, a drag is active only while the left button is
\* held, and a pointer-move changes the canonical geometry only while a drag
\* is active.
C15_DragOnlyWhileLeftHeld ==
    /\ [](dragging_mode # HANDLE_NONE => left_down)
    /\ [][(last_op' = "mouseMoveEvent" /\ canon' # canon) =>
              dragging_mode # HANDLE_NONE]_vars

\* A pointer-move of an active drag, with the left button held, has just
\* changed the canonical geometry.
C15_Witness ==
    /\ last_op = "mouseMoveEvent"
    /\ emitted = 1
    /\ dragging_mode # HANDLE_NONE
    /\ left_down

\* The drawable area of the widget is empty.
DrawableAreaEmpty ==
    Width(DrawableArea(widget_size)) <= 0 \/ Height(DrawableArea(widget_size)) <= 0

\* The last handler ran _calculate_rects to its end.
FrameComputed == RecomputeRan /\ ~DrawableAreaEmpty

\* Points of the 1920x1080 display, in display pixels.
RealPoints == {0, 100, 500, 959, 1919} \X {0, 100, 540, 1079}

\* Display point p taken to the canvas by the recompute's rule and back by
\* the drag step's rule.
RoundTrip(p) ==
    LET c == PreviewOrigin(monitor_rect, monitor_width_px, monitor_height_px, p)
    IN  ToRealPos(QRect(c[1], c[2], MinPreviewSize, MinPreviewSize), monitor_rect,
                  monitor_width_px, monitor_height_px)

\* The frame has been computed for DisplaySpec(1920,1080) and
\* OverlaySpec(100,100,400,300).
RoundTripScenario ==
    /\ FrameComputed
    /\ monitor_width_px = 1920 /\ monitor_height_px = 1080
    /\ canon = <<<<100, 100>>, 400, 300>>

\* C16 as the specification states it: the round trip returns every point
\* within 1 px on each axis.
C16_RoundTripWithinOnePixel ==
    RoundTripScenario =>
        \A p \in RealPoints :
            /\ Abs(RoundTrip(p)[1] - p[1]) <= 1
            /\ Abs(RoundTrip(p)[2] - p[2]) <= 1

\* C16: with DisplaySpec(1920,1080) and OverlaySpec(100,100,400,300), a
\* point of the display taken to the canvas and back returns within half a
\* canvas pixel measured in display pixels, plus half a pixel of rounding:
\* |dx| <= 1920 / (2 * display_rect.width) + 1/2, and likewise for y.
C16_RoundTripWithinHalfCanvasPixel ==
    RoundTripScenario =>
        \A p \in RealPoints :
            /\ 2 * Width(monitor_rect) * Abs(RoundTrip(p)[1] - p[1])
                   <= monitor_width_px + Width(monitor_rect)
            /\ 2 * Height(monitor_rect) * Abs(RoundTrip(p)[2] - p[2])
                   <= monitor_height_px + Height(monitor_rect)

\* The recompute has placed the overlay of the scenario at the canvas image
\* of (100,100) on the 100x50 widget, from where the drag step's rule does
\* not return to (100,100).
C16_Witness ==
    /\ RoundTripScenario
    /\ widget_size = <<100, 50>>
    /\ <<overlay_rect.x1, overlay_rect.y1>> =
           PreviewOrigin(monitor_rect, monitor_width_px, monitor_height_px, <<100, 100>>)
    /\ RoundTrip(<<100, 100>>) # <<100, 100>>

\* The frame has been computed for DisplaySpec(1920,1080) and
\* OverlaySpec(0,0,192,108), a tenth of the display each way.
TenthScenario ==
    /\ FrameComputed
    /\ monitor_width_px = 1920 /\ monitor_height_px = 1080
    /\ canon = <<<<0, 0>>, 192, 108>>

\* C17 as the specification states it: on every widget size overlay_rect
\* is a tenth of display_rect each way, within 1 px.
C17_TenthOfDisplayRect ==
    TenthScenario =>
        /\ Abs(10 * Width(overlay_rect) - Width(monitor_rect)) <= 10
        /\ Abs(10 * Height(overlay_rect) - Height(monitor_rect)) <= 10

\* C17: with DisplaySpec(1920,1080) and OverlaySpec(0,0,192,108), after the
\* recompute each dimension of overlay_rect is, within 1 px, the larger of
\* a tenth of display_rect's dimension and the minimum preview size
\* 2*HANDLE_SIZE+2, on every widget size.
C17_TenthOrMinimum ==
    TenthScenario =>
        /\ Abs(10 * Width(overlay_rect)
                 - Max(10 * (2 * HANDLE_SIZE + 2), Width(monitor_rect))) <= 10
        /\ Abs(10 * Height(overlay_rect)
                 - Max(10 * (2 * HANDLE_SIZE + 2), Height(monitor_rect))) <= 10

\* The scenario on the 400x300 widget, where a tenth of display_rect is
\* above the minimum: 40x22 in a display_rect of 398x224.
C17_Witness ==
    /\ TenthScenario
    /\ widget_size = <<400, 300>>
    /\ Width(monitor_rect) = 398 /\ Height(monitor_rect) = 224
    /\ Width(overlay_rect) = 40 /\ Height(overlay_rect) = 22

\* C18: whenever overlay_rect is non-null, its width and its height are at
\* least 2*HANDLE_SIZE+2 (18) canvas px, after every recompute and after
\* every Move or Resize drag step.
C18_OverlayRectAtLeastMinimum ==
    ~IsNull(overlay_rect) =>
        /\ Width(overlay_rect) >= 2 * HANDLE_SIZE + 2
        /\ Height(overlay_rect) >= 2 * HANDLE_SIZE + 2

\* A resize drag step has just shrunk overlay_rect down to the minimum in
\* a dimension.
C18_Witness ==
    /\ DragStepApplied
    /\ dragging_mode \in ResizeModes
    /\ \/ Width(overlay_rect) = 2 * HANDLE_SIZE + 2 /\ Width(drag_start_rect) > 2 * HANDLE_SIZE + 2
       \/ Height(overlay_rect) = 2 * HANDLE_SIZE + 2 /\ Height(drag_start_rect) > 2 * HANDLE_SIZE + 2

\* C19: setMonitorGeometry called with width <= 0 or height <= 0, or with
\* both values equal to the current DisplaySpec, changes nothing: DisplaySpec,
\* the display aspect ratio, display_rect, overlay_rect and OverlaySpec stay
\* as they are, no redraw is requested and no event is raised.
C19_SetMonitorGeometryNoOp ==
    [][last_op' = "setMonitorGeometry" =>
       \A w \in MonitorWidths, h \in MonitorHeights :
          (/\ setMonitorGeometry(w, h)
           /\ \/ w <= 0
              \/ h <= 0
              \/ w = monitor_width_px /\ h = monitor_height_px) =>
              /\ UNCHANGED <<display, frame, canon, overlay_aspect_ratio>>
              /\ ~updated'
              /\ emitted' = 0]_vars

\* setMonitorGeometry has just returned without a redraw on a widget whose
\* frame had been computed for a display other than the initial one.
C19_Witness ==
    /\ last_op = "setMonitorGeometry"
    /\ ~updated
    /\ emitted = 0
    /\ monitor_width_px = 360
    /\ ~IsNull(monitor_rect)

\* C20: a recompute on a widget whose drawable area has width <= 0 or
\* height <= 0 is skipped: display_rect and overlay_rect keep their
\* previous values and nothing is divided by.
C20_EmptyDrawableAreaSkipsRecompute ==
    [][(RecomputeRan' /\ DrawableAreaEmpty') =>
          /\ monitor_rect' = monitor_rect
          /\ overlay_rect' = overlay_rect
          /\ CalculateRectsDivisors(widget_size', monitor_width_px', monitor_height_px',
                                    monitor_aspect_ratio') = {}]_vars

\* The widget has just been resized to 2x2, whose drawable area is 0x0, and
\* still has the frame computed before.
C20_Witness ==
    /\ last_op = "resizeEvent"
    /\ widget_size = <<2, 2>>
    /\ ~IsNull(monitor_rect)
    /\ ~IsNull(overlay_rect)

\* C21: setOverlayInfo called with offsets equal to the canonical ones and
\* dimensions that, with a non-positive one taken as 1, equal the canonical
\* ones does nothing: canonical state, aspect ratio, display_rect and
\* overlay_rect are unchanged and no recompute or redraw is requested.
C21_IdenticalSetOverlayIsNoOp ==
    [][last_op' = "setOverlayInfo" =>
       \A a \in HostOverlayArgs :
          (/\ setOverlayInfo(a[1], a[2], a[3], a[4])
           /\ <<a[1], a[2]>> = overlay_relative_pos
           /\ (IF a[3] <= 0 THEN 1 ELSE a[3]) = overlay_actual_width
           /\ (IF a[4] <= 0 THEN 1 ELSE a[4]) = overlay_actual_height) =>
              /\ UNCHANGED <<canon, overlay_aspect_ratio, frame>>
              /\ ~updated']_vars

\* setOverlayInfo has just returned without a redraw on a canonical state of
\* 1x1 at (-5,0), which the arguments (-5,0,0,0) equal once coerced, with the
\* frame computed before still in place.
C21_Witness ==
    /\ last_op = "setOverlayInfo"
    /\ ~updated
    /\ canon = <<<<-5, 0>>, 1, 1>>
    /\ ~IsNull(overlay_rect)

\* C22: within one Move drag session that starts from non-negative offsets
\* and sees no setter call or resize, a pointer-move back to exactly the anchor position leaves the canonical
\* relative position at its value before the drag started, wherever the
\* pointer has been in between.
C22_BackAtAnchorRestoresPosition ==
    [][(/\ last_op' = "mouseMoveEvent"
        /\ dragging_mode = HANDLE_MOVE
        /\ ~interfered
        /\ pre_drag_canon[1][1] >= 0 /\ pre_drag_canon[1][2] >= 0
        /\ mouseMoveEvent(PressPoint, TRUE)) =>
           overlay_relative_pos' = pre_drag_canon[1]]_vars

\* v clamped to the interval [lo, hi].
ClampTo(v, lo, hi) == IF v < lo THEN lo ELSE IF v > hi THEN hi ELSE v

\* The rectangle a Move drag step with the pointer at widget position p is
\* to produce: startRect's size, its origin displaced by the pointer's
\* displacement from the anchor and clamped into display_rect.
MoveStepAsSpecified(p, o) ==
    LET dx == WidgetOrigin[1] + p[1] - drag_start_pos[1]
        dy == WidgetOrigin[2] + p[2] - drag_start_pos[2]
        w == Width(drag_start_rect)
        h == Height(drag_start_rect)
    IN  /\ Width(o) = w
        /\ Height(o) = h
        /\ o.x1 = ClampTo(drag_start_rect.x1 + dx, monitor_rect.x1, monitor_rect.x2 + 1 - w)
        /\ o.y1 = ClampTo(drag_start_rect.y1 + dy, monitor_rect.y1, monitor_rect.y2 + 1 - h)
        /\ p[1] < monitor_rect.x1 => o.x1 = monitor_rect.x1
        /\ p[1] > monitor_rect.x2 => o.x2 = monitor_rect.x2
        /\ p[2] < monitor_rect.y1 => o.y1 = monitor_rect.y1
        /\ p[2] > monitor_rect.y2 => o.y2 = monitor_rect.y2

\* C23: a Move drag step leaves overlay_rect with exactly the width and
\* height of startRect and with the origin of startRect plus (pointer -
\* anchor), x clamped to [display_rect.left, display_rect.right + 1 - width]
\* and y to [display_rect.top, display_rect.bottom + 1 - height]; with the
\* pointer beyond a display boundary the overlay sits exactly at that bound.
C23_MoveStepClampedTranslation ==
    [][(last_op' = "mouseMoveEvent" /\ dragging_mode = HANDLE_MOVE) =>
       \A p \in Points :
          mouseMoveEvent(p, TRUE) => MoveStepAsSpecified(p, overlay_rect')]_vars

\* C24: whenever overlayGeometryChanged is raised, the canonical position
\* and size, the aspect ratio and overlay_rect already hold the new values:
\* a slot that reads the widget synchronously finds the geometry the handler
\* leaves behind, never the one it started from.
C24_SlotReadsNewGeometry ==
    emitted > 0 => observed = <<canon, overlay_aspect_ratio, overlay_rect>>

\* A drag step has just raised the signal for a changed size, and the slot
\* found the new size.
C24_Witness ==
    /\ emitted = 1
    /\ last_op = "mouseMoveEvent"
    /\ observed # <<>>
    /\ observed[1] = canon
    /\ <<overlay_actual_width, overlay_actual_height>> # <<pre_drag_canon[2], pre_drag_canon[3]>>

\* The order in which one pass of the slot goes through its positions.
SlotOrder == <<"idle", "setMonitorGeometry", "setOverlayInfo", "update">>
SlotRank(p) == CHOOSE i \in 1..Len(SlotOrder) : SlotOrder[i] = p

\* C25: with a slot that calls setMonitorGeometry and setOverlayInfo back
\* from inside its overlayGeometryChanged handler, with values equal to or
\* different from the canonical state, the handling of one pointer event
\* raises the signal at most once, no setter call of the slot raises it
\* again, and the handling comes to its end: every step taken inside the
\* slot moves it one position forward, to the setter call that follows or
\* back to the event loop, and never to its start again.
C25_NoNotificationCycle ==
    /\ [](event_emitted <= 1)
    /\ [](slot \in {"setOverlayInfo", "update"} => emitted = 0)
    /\ [][slot # "idle" =>
             IF slot = "update" THEN slot' = "idle"
             ELSE SlotRank(slot') = SlotRank(slot) + 1]_vars

\* The slot has called both setters, setOverlayInfo with values that
\* changed the canonical state, and the signal has been raised once.
C25_Witness ==
    /\ slot = "update"
    /\ last_op = "setOverlayInfo"
    /\ updated
    /\ event_emitted = 1


\* C26: after every frame recompute with a non-empty drawable area,
\* display_rect lies inside the drawable area; it takes the drawable
\* area's height when that area is wider than the display and its width
\* otherwise; the other dimension is the nearest integer to the taken one
\* scaled by the display's aspect ratio; and the leftover margin along the
\* letterboxed axis is split with at most 1 px of difference.
C26_DisplayRectLetterboxed ==
    FrameComputed =>
        LET d == DrawableArea(widget_size)
            m == monitor_rect
            left == m.x1 - d.x1
            right == d.x2 - m.x2
            top == m.y1 - d.y1
            bottom == d.y2 - m.y2
        IN  /\ Within(m, d)
            /\ IF Width(d) * monitor_height_px > monitor_width_px * Height(d)
               THEN /\ Height(m) = Height(d)
                    /\ 2 * Abs(Width(m) * monitor_height_px - Height(d) * monitor_width_px)
                           <= monitor_height_px
                    /\ Abs(left - right) <= 1
               ELSE /\ Width(m) = Width(d)
                    /\ 2 * Abs(Height(m) * monitor_width_px - Width(d) * monitor_height_px)
                           <= monitor_width_px
                    /\ Abs(top - bottom) <= 1

\* A recompute left display_rect narrower than the drawable area with an
\* odd leftover, so that the two margins differ by one pixel.
C26_Witness ==
    /\ FrameComputed
    /\ Width(monitor_rect) < Width(DrawableArea(widget_size))
    /\ (Width(DrawableArea(widget_size)) - Width(monitor_rect)) % 2 = 1


\* C27: in a pointer-move drag step whose candidate rectangle differs from
\* the current overlay_rect while display_rect has non-zero area,
\* overlay_rect becomes the candidate and a redraw is requested, whether or
\* not the canonical OverlaySpec changed; when it did not change, no event
\* is raised.
C27_DragStepAppliesCandidate ==
    [][( /\ last_op' = "mouseMoveEvent"
         /\ drag_candidate' # <<>>
         /\ drag_candidate' # overlay_rect
         /\ Width(monitor_rect) > 0
         /\ Height(monitor_rect) > 0 )
       => /\ overlay_rect' = drag_candidate'
          /\ updated'
          /\ (canon' = canon => emitted' = 0)]_vars

\* A drag step moved overlay_rect, left the canonical OverlaySpec as it was
\* and raised no event.
C27_Witness ==
    /\ DragStepApplied
    /\ emitted = 0
    /\ dragging_mode # HANDLE_NONE


\* C28: no operation divides by zero in any reachable state: whatever
\* integers the setters were called with, whatever size the widget was
\* resized to (an empty drawable area included) and whatever the pointer
\* did, every number the next setMonitorGeometry, setOverlayInfo,
\* resizeEvent or mouseMoveEvent divides by is non-zero.
C28_NoDivisionByZero ==
    /\ \A w \in MonitorWidths, h \in MonitorHeights :
          0 \notin setMonitorGeometryDivisors(w, h)
    /\ \A a \in OverlayArgs : 0 \notin setOverlayInfoDivisors(a[1], a[2], a[3], a[4])
    /\ \A size \in FrameWidgetSizes :
          0 \notin CalculateRectsDivisors(size, monitor_width_px, monitor_height_px,
                                          monitor_aspect_ratio)
    /\ \A e \in DragMoveEvents : 0 \notin mouseMoveEventDivisors(e[1], e[2])

\* A resize drag step has been applied on a widget that was resized to an
\* empty drawable area during the drag: the step divided by the overlay
\* aspect ratio and by the dimensions of the display_rect left from before.
C28_Witness ==
    /\ DragStepApplied
    /\ dragging_mode \in ResizeModes
    /\ DrawableAreaEmpty

\* C29: in every reachable state the stored overlay aspect ratio is
\* strictly positive and equals canonical width_px / height_px; neither
\* setOverlayInfo nor a drag step leaves it at the value of an earlier size.
C29_AspectRatioIsWidthOverHeight ==
    /\ overlay_aspect_ratio[1] > 0
    /\ overlay_aspect_ratio[2] > 0
    /\ overlay_actual_height # 0
    /\ overlay_aspect_ratio[1] * overlay_actual_height
          = overlay_aspect_ratio[2] * overlay_actual_width

\* A resize drag step has changed the canonical size, and with it the
\* aspect ratio the session started with.
C29_Witness ==
    /\ DragStepApplied
    /\ dragging_mode \in ResizeModes
    /\ overlay_aspect_ratio # pre_drag_aspect
    /\ <<overlay_actual_width, overlay_actual_height>>
          # <<pre_drag_canon[2], pre_drag_canon[3]>>

\* C30: a Move drag leaves the canonical overlay size unchanged: while a
\* drag in Move mode that began with the overlay inside display_rect at
\* non-negative offsets goes on undisturbed by the host, width_px and
\* height_px are those of the pointer-down.
C30_MoveKeepsCanonicalSize ==
    ( /\ dragging_mode = HANDLE_MOVE
      /\ ~interfered
      /\ pre_drag_canon[1][1] >= 0
      /\ pre_drag_canon[1][2] >= 0
      /\ Within(drag_start_rect, monitor_rect) )
    => /\ overlay_actual_width = pre_drag_canon[2]
       /\ overlay_actual_height = pre_drag_canon[3]


\* The last event was the pointer-down that started the drag session now
\* active, with the overlay inside display_rect at non-negative offsets.
DragJustStarted ==
    /\ last_op = "mousePressEvent"
    /\ dragging_mode # HANDLE_NONE
    /\ moves = 0
    /\ ~interfered
    /\ drag_start_rect = overlay_rect
    /\ Within(overlay_rect, monitor_rect)
    /\ overlay_relative_pos[1] >= 0 /\ overlay_relative_pos[2] >= 0

\* C31: a pointer-move with the pointer still at the press position, right
\* after a drag started in any of the five modes, leaves overlay_rect and
\* the canonical OverlaySpec unchanged and raises no event.
C31_ZeroDisplacementIsNoOp ==
    [][(/\ last_op' = "mouseMoveEvent"
        /\ DragJustStarted
        /\ mouseMoveEvent(PressPoint, TRUE)) =>
           /\ overlay_rect' = overlay_rect
           /\ canon' = canon
           /\ overlay_aspect_ratio' = overlay_aspect_ratio
           /\ emitted' = 0]_vars


\* new_rect of a pointer-move at widget position p with the button held,
\* from the session, display_rect and aspect ratio given.
CandidateAt(p, mode, sp, sr, m, ar) ==
    Candidate(mode, sr, m,
              <<GlobalPosition(p)[1] - sp[1], GlobalPosition(p)[2] - sp[2]>>, ar)

\* C32: drag steps are idempotent in the pointer position: after a
\* pointer-move of a drag session (any mode, no setter call in between), a
\* second pointer-move at the same position finds its candidate equal to
\* overlay_rect, so it changes neither overlay_rect nor the canonical
\* OverlaySpec and raises no event.
C32_DragStepIdempotent ==
    [][(/\ last_op' = "mouseMoveEvent"
        /\ dragging_mode # HANDLE_NONE
        /\ ~interfered
        /\ Within(drag_start_rect, monitor_rect)
        /\ pre_drag_canon[1][1] >= 0 /\ pre_drag_canon[1][2] >= 0) =>
          \A e \in DragMoveEvents :
             (/\ e[2]
              /\ drag_candidate' = CandidateAt(e[1], dragging_mode, drag_start_pos,
                                               drag_start_rect, monitor_rect,
                                               overlay_aspect_ratio))
             => CandidateAt(e[1], dragging_mode', drag_start_pos', drag_start_rect',
                            monitor_rect', overlay_aspect_ratio') = overlay_rect']_vars


\* DisplaySpec with its aspect ratio, OverlaySpec with its aspect ratio,
\* display_rect and overlay_rect.
geometry == <<display, canon, overlay_aspect_ratio, frame>>

\* C33: pointer events outside a drag never change geometry: a pointer-move
\* while no drag session exists, a pointer-move that does not report the
\* left button as held, any pointer-down and any pointer-up leave
\* DisplaySpec, OverlaySpec, the aspect ratios, display_rect and
\* overlay_rect as they were.
C33_PointerOutsideDragKeepsGeometry ==
    [][/\ last_op' \in {"mousePressEvent", "mouseReleaseEvent"} => geometry' = geometry
       /\ last_op' = "mouseMoveEvent" =>
            /\ dragging_mode = HANDLE_NONE => geometry' = geometry
            /\ \A p \in CursorPoints \cup {ElsewherePoint} :
                  mouseMoveEvent(p, FALSE) => geometry' = geometry]_vars

\* A pointer-move that did not report the left button has just been handled
\* in the middle of a drag session that had already moved the overlay.
C33_Witness ==
    /\ last_op = "mouseMoveEvent"
    /\ dragging_mode # HANDLE_NONE
    /\ drag_candidate = <<>>
    /\ overlay_rect # drag_start_rect
    /\ moves = 2


\* C34: setMonitorGeometry never modifies the canonical OverlaySpec:
\* whatever its arguments, relative_x, relative_y, width_px, height_px and
\* the overlay aspect ratio are the same after the call as before it, also
\* when the overlay no longer fits in the new display.
C34_SetMonitorGeometryKeepsOverlaySpec ==
    [][last_op' = "setMonitorGeometry" =>
          /\ canon' = canon
          /\ overlay_aspect_ratio' = overlay_aspect_ratio]_vars

\* setMonitorGeometry has just stored a display narrower than the overlay,
\* whose canonical width is still the one the host gave.
C34_Witness ==
    /\ last_op = "setMonitorGeometry"
    /\ updated
    /\ monitor_width_px = 360
    /\ overlay_actual_width > monitor_width_px
    /\ ~IsNull(overlay_rect)


\* What _calculate_rects would write from the current DisplaySpec,
\* OverlaySpec and widget size.
RecomputedFrame ==
    CalculateRects(widget_size, monitor_width_px, monitor_height_px, monitor_aspect_ratio,
                   overlay_relative_pos, overlay_actual_width, overlay_actual_height, frame)

\* C35: the drawn overlay_rect agrees with the canonical state: after every
\* applied drag step, and after the release that ends the drag, the frame
\* recompute on the current DisplaySpec, OverlaySpec and widget size yields
\* exactly the current overlay_rect (for drags that start with the overlay
\* inside display_rect at non-negative offsets and see no host call).
C35_OverlayRectAgreesWithCanon ==
    ( /\ \/ DragStepApplied
         \/ last_op = "mouseReleaseEvent" /\ updated /\ moves > 0
      /\ ~interfered
      /\ Within(drag_start_rect, monitor_rect)
      /\ pre_drag_canon[1][1] >= 0 /\ pre_drag_canon[1][2] >= 0 )
    => RecomputedFrame[2] = overlay_rect


\* In the current drag session the candidate rectangle is the same for any
\* two pointer positions with the same horizontal coordinate.
CandidateIgnoresVertical ==
    \A p \in Points, q \in Points :
       p[1] = q[1] =>
          CandidateAt(p, dragging_mode, drag_start_pos, drag_start_rect, monitor_rect,
                      overlay_aspect_ratio)
          = CandidateAt(q, dragging_mode, drag_start_pos, drag_start_rect, monitor_rect,
                        overlay_aspect_ratio)

\* C36: in every resize mode the dragged corner follows the pointer on both
\* axes: in a resize drag session that started with the overlay inside
\* display_rect, some two pointer positions with the same horizontal
\* displacement from the anchor and different vertical displacements give
\* different candidate rectangles.
C36_ResizeFollowsBothAxes ==
    ( /\ dragging_mode \in ResizeModes
      /\ ~interfered
      /\ Within(drag_start_rect, monitor_rect) )
    => ~CandidateIgnoresVertical


HostOps == {"setMonitorGeometry", "setOverlayInfo", "resizeEvent"}

\* C37: a setOverlayInfo, setMonitorGeometry or widget resize during an
\* active drag leaves the session (mode, anchor, startRect) as it is, and a
\* pointer-move of a drag that such a call has interrupted computes its
\* candidate from the startRect captured at pointer-down: it is the candidate
\* of some pointer position for that startRect, in Move mode it has the size
\* of startRect, and in BottomRight mode it has the top-left corner of
\* startRect.
C37_HostCallKeepsDragSession ==
    [][ /\ (dragging_mode # HANDLE_NONE /\ last_op' \in HostOps) => session' = session
        /\ ( /\ dragging_mode # HANDLE_NONE
             /\ interfered
             /\ last_op' = "mouseMoveEvent"
             /\ drag_candidate' # <<>> )
           => /\ \E p \in Points :
                    drag_candidate' = CandidateAt(p, dragging_mode, drag_start_pos,
                                                  drag_start_rect, monitor_rect,
                                                  overlay_aspect_ratio)
              /\ dragging_mode = HANDLE_MOVE
                    => /\ Width(drag_candidate') = Width(drag_start_rect)
                       /\ Height(drag_candidate') = Height(drag_start_rect)
              /\ dragging_mode = HANDLE_BOTTOM_RIGHT
                    => /\ drag_candidate'.x1 = drag_start_rect.x1
                       /\ drag_candidate'.y1 = drag_start_rect.y1 ]_vars

\* The first pointer-move of a Move drag session, after a host call made
\* during the session: the step is applied, overlay_rect has the size of
\* startRect, and the canonical size is not the one at pointer-down.
C37_Witness ==
    /\ last_op = "mouseMoveEvent"
    /\ dragging_mode = HANDLE_MOVE
    /\ interfered
    /\ moves = 1
    /\ drag_candidate = overlay_rect
    /\ updated
    /\ Width(overlay_rect) = Width(drag_start_rect)
    /\ Height(overlay_rect) = Height(drag_start_rect)
    /\ <<overlay_actual_width, overlay_actual_height>> # <<pre_drag_canon[2], pre_drag_canon[3]>>


\* The cursor shape for the spot p of overlay rectangle r: a diagonal
\* resize cursor over a handle, the move cursor over the body, the arrow
\* elsewhere.
ShapeOver(r, p) ==
    LET h == HandleAt(r, p)
    IN  CASE h \in {HANDLE_TOP_LEFT, HANDLE_BOTTOM_RIGHT} -> "SizeFDiagCursor"
          [] h \in {HANDLE_TOP_RIGHT, HANDLE_BOTTOM_LEFT} -> "SizeBDiagCursor"
          [] h = HANDLE_MOVE -> "SizeAllCursor"
          [] OTHER -> "ArrowCursor"

\* C38: after a release of the left button that ends a drag, the cursor shape
\* is the one for handleAt at the release position on the final overlay_rect;
\* while a drag is active (mode not None), no pointer-move changes the
\* cursor shape, whether or not it reports the left button as held.
C38_CursorAfterReleaseAndDuringDrag ==
    [][ /\ (last_op' = "mouseReleaseEvent" /\ dragging_mode # HANDLE_NONE) =>
             \A p \in CursorPoints :
                (mouseReleaseEvent(p, "LeftButton") /\ ~left_down') =>
                    /\ dragging_mode' = HANDLE_NONE
                    /\ overlay_rect' = overlay_rect
                    /\ cursor' = ShapeOver(overlay_rect', p)
        /\ (last_op' = "mouseMoveEvent" /\ dragging_mode # HANDLE_NONE) =>
             cursor' = cursor ]_vars

\* A drag that changed overlay_rect has just been ended by a release
\* over the top-left handle of the final rectangle: the cursor is the
\* diagonal one, not the arrow or move cursor of the idle widget.
C38_Witness ==
    /\ last_op = "mouseReleaseEvent"
    /\ updated
    /\ dragging_mode = HANDLE_NONE
    /\ ~left_down
    /\ overlay_rect # drag_start_rect
    /\ HandleAt(overlay_rect, <<8, 2>>) = HANDLE_TOP_LEFT
    /\ HandleAt(overlay_rect, <<48, 12>>) # HANDLE_TOP_LEFT
    /\ HandleAt(overlay_rect, <<104, 41>>) # HANDLE_TOP_LEFT
    /\ cursor = "SizeFDiagCursor"

=============================================================================
